---- MODULE Spec2Model ----
(***************************************************************************)
(* CountryService (src/src/services/countries.service.ts) over its store.  *)
(*                                                                         *)
(* The state is the store the service writes through `repo` (the Country   *)
(* table, the Visit table, the Country id sequence), the calls that are    *)
(* between two awaits (a soft delete between its two writes, the upserts   *)
(* of a running upsertCountriesFromAPI), and the call record of the step   *)
(* just taken.  Every store call is one atomic step; requests interleave   *)
(* at the awaits.                                                          *)
(***************************************************************************)
EXTENDS Integers, Sequences, FiniteSets

\* ---------------------------------------------------------------- bounds
MaxId == 2          \* Country ids the id sequence may hand out
MaxVisits == 2      \* Visit rows
MaxList == 2        \* records in one external listing

Ids == 1..MaxId
VisitIds == 1..MaxVisits
Names == {"X", "Y"}
Abbrs == {"AB", "CD"}
Absent == "absent"   \* a field a partial update leaves out
NoId == 0            \* no Country id: the sequence starts at 1

\* ------------------------------------------------------------ data shapes
\* CreateCountryDto: the fields a caller supplies.
CreateDtos == [name : Names, abbreviation : Abbrs]
\* UpdateCountryDto: any subset of them.
UpdateDtos == [name : Names \cup {Absent}, abbreviation : Abbrs \cup {Absent}]
NoData == [name |-> Absent, abbreviation |-> Absent]
\* A raw record of the external listing: the provider's own id and the fields.
RawRecords == [id : {"ext"}, name : Names, abbreviation : Abbrs]

VARIABLES countries, visits, nextId, del, sync, last, fetched, series
vars == <<countries, visits, nextId, del, sync, last, fetched, series>>

\* ------------------------------------------------------------- sanitizers
\* sanitizeCountryAPI: raw external record -> CreateCountryDto (drops the
\* provider's id).
sanitizeCountryAPI(raw) == [name |-> raw.name, abbreviation |-> raw.abbreviation]

\* sanitizeCountry: stored entity -> output record (drops the internal flag).
sanitizeCountry(e) == [id |-> e.id, name |-> e.name, abbreviation |-> e.abbreviation]

\* ------------------------------------------------------- store primitives
Entity(cs, id) ==
  [id |-> id, name |-> cs[id].name, abbreviation |-> cs[id].abbreviation,
   deleted |-> cs[id].deleted]
NoEntity == [id |-> NoId, name |-> Absent, abbreviation |-> Absent, deleted |-> FALSE]

Put(cs, id, row) == [i \in DOMAIN cs \cup {id} |-> IF i = id THEN row ELSE cs[i]]
Remove(cs, id) == [i \in DOMAIN cs \ {id} |-> cs[i]]

\* Faulty variant: the index counts active rows only.
AbbreviationTakenActiveOnly(cs, self, abbr) ==
  \E i \in DOMAIN cs \ {self} : cs[i].abbreviation = abbr /\ ~cs[i].deleted

\* The unique index on Country.abbreviation (the upsert's `where` needs one).
AbbreviationTaken(cs, self, abbr) ==
  \E i \in DOMAIN cs \ {self} : cs[i].abbreviation = abbr
\* The unique index on Country.name.
NameTaken(cs, self, name) ==
  \E i \in DOMAIN cs \ {self} : cs[i].name = name
\* The store's P2002: a write that would break a unique index.
UniqueViolation(cs, self, row) ==
  AbbreviationTaken(cs, self, row.abbreviation) \/ NameTaken(cs, self, row.name)

\* Faulty variant: every write of a row clears its deleted flag.
MergeRevives(row, data) ==
  [name |-> IF data.name = Absent THEN row.name ELSE data.name,
   abbreviation |-> IF data.abbreviation = Absent THEN row.abbreviation
                    ELSE data.abbreviation,
   deleted |-> FALSE]

\* A partial update laid over a row; `deleted` is no field of the DTOs.
Merge(row, data) ==
  [name |-> IF data.name = Absent THEN row.name ELSE data.name,
   abbreviation |-> IF data.abbreviation = Absent THEN row.abbreviation
                    ELSE data.abbreviation,
   deleted |-> row.deleted]

StoreResult(err, cs, nid, e) == [err |-> err, cs |-> cs, nextId |-> nid, rec |-> e]

\* Faulty variant: findFirst without the `deleted: false` filter.
FindFirstAny(cs, id) ==
  IF id \in DOMAIN cs THEN <<Entity(cs, id)>> ELSE <<>>

\* repo.country.findFirst({ where: { id, deleted: false } })
FindFirst(cs, id) ==
  IF id \in DOMAIN cs /\ ~cs[id].deleted THEN <<Entity(cs, id)>> ELSE <<>>

\* repo.country.findMany({ where: { deleted: false } }), in id order
RECURSIVE FindManyFrom(_, _)
FindManyFrom(cs, i) ==
  IF i > MaxId THEN <<>>
  ELSE (IF i \in DOMAIN cs /\ ~cs[i].deleted THEN <<Entity(cs, i)>> ELSE <<>>)
       \o FindManyFrom(cs, i + 1)
FindMany(cs) == FindManyFrom(cs, 1)

\* Faulty variant: an update that looks among the non-deleted rows only.
RepoUpdateActiveOnly(cs, nid, id, data) ==
  IF id \notin DOMAIN cs \/ cs[id].deleted THEN StoreResult("P2025", cs, nid, NoEntity)
  ELSE LET row == Merge(cs[id], data) IN
       IF UniqueViolation(cs, id, row) THEN StoreResult("P2002", cs, nid, NoEntity)
       ELSE LET cs2 == Put(cs, id, row) IN StoreResult("ok", cs2, nid, Entity(cs2, id))

\* repo.country.update({ where: { id }, data }): P2025 when no row has the id.
RepoUpdate(cs, nid, id, data) ==
  IF id \notin DOMAIN cs THEN StoreResult("P2025", cs, nid, NoEntity)
  ELSE LET row == Merge(cs[id], data) IN
       IF UniqueViolation(cs, id, row) THEN StoreResult("P2002", cs, nid, NoEntity)
       ELSE LET cs2 == Put(cs, id, row) IN StoreResult("ok", cs2, nid, Entity(cs2, id))

\* Faulty variant: the flag written only on a row that is not flagged yet.
RepoMarkDeletedActiveOnly(cs, nid, id) ==
  IF id \notin DOMAIN cs \/ cs[id].deleted THEN StoreResult("P2025", cs, nid, NoEntity)
  ELSE LET cs2 == Put(cs, id, [cs[id] EXCEPT !.deleted = TRUE])
       IN  StoreResult("ok", cs2, nid, Entity(cs2, id))

\* repo.country.update({ where: { id }, data: { deleted: true } })
RepoMarkDeleted(cs, nid, id) ==
  IF id \notin DOMAIN cs THEN StoreResult("P2025", cs, nid, NoEntity)
  ELSE LET cs2 == Put(cs, id, [cs[id] EXCEPT !.deleted = TRUE])
       IN  StoreResult("ok", cs2, nid, Entity(cs2, id))

\* repo.country.delete({ where: { id } }): P2025 when no row has the id.
RepoDelete(cs, nid, id) ==
  IF id \notin DOMAIN cs THEN StoreResult("P2025", cs, nid, NoEntity)
  ELSE StoreResult("ok", Remove(cs, id), nid, Entity(cs, id))

\* repo.country.create({ data }): a new row under the next id, deleted = false.
RepoCreate(cs, nid, data) ==
  LET row == [name |-> data.name, abbreviation |-> data.abbreviation, deleted |-> FALSE] IN
  IF UniqueViolation(cs, NoId, row) THEN StoreResult("P2002", cs, nid, NoEntity)
  ELSE LET cs2 == Put(cs, nid, row) IN StoreResult("ok", cs2, nid + 1, Entity(cs2, nid))

\* Faulty variant: an upsert that replaces the row it finds by a new one.
RepoUpsertReplaces(cs, nid, data) ==
  LET hit == {i \in DOMAIN cs : cs[i].abbreviation = data.abbreviation}
      rest == [i \in DOMAIN cs \ hit |-> cs[i]]
  IN  RepoCreate(rest, nid, data)

\* repo.country.upsert({ where: { abbreviation }, create: data, update: data })
RepoUpsert(cs, nid, data) ==
  LET hit == {i \in DOMAIN cs : cs[i].abbreviation = data.abbreviation} IN
  IF hit = {} THEN RepoCreate(cs, nid, data)
  ELSE RepoUpdate(cs, nid, CHOOSE i \in hit : TRUE, data)

\* Faulty variant: the cascade keyed by the Visit's own id.
VisitUpdateManyById(vs, id) ==
  [v \in DOMAIN vs |-> IF v = id THEN [vs[v] EXCEPT !.deleted = TRUE] ELSE vs[v]]

\* repo.visit.updateMany({ where: { countryId: id }, data: { deleted: true } })
VisitUpdateMany(vs, id) ==
  [v \in DOMAIN vs |-> IF vs[v].countryId = id THEN [vs[v] EXCEPT !.deleted = TRUE]
                       ELSE vs[v]]

\* ------------------------------------------------------------ call record
\* The call a step belongs to and what it returned; `again` says the step
\* before it was the same call with the same arguments.
Call(op, id, hard, data, status, out) ==
  [op |-> op, id |-> id, hard |-> hard, data |-> data, status |-> status, out |-> out,
   again |-> /\ last.status # "pending"
             /\ last.op = op /\ last.id = id /\ last.hard = hard /\ last.data = data]
\* A step after which no call has returned.
Internal(op) == Call(op, NoId, FALSE, NoData, "pending", <<>>)

\* What countriesApiService.getData answered last: the raw listing, or its
\* failure.
Fetched(raws) == [ok |-> TRUE, raws |-> raws]
FetchFailed == [ok |-> FALSE, raws |-> <<>>]

\* The runs of the sync over one listing, one after the other: the store and
\* the id sequence before the first of them, whether one of them has failed,
\* and whether the run before this one succeeded (orig is then what it left).
NoSeries == [orig |-> <<>>, nextId |-> 1, failed |-> FALSE, second |-> FALSE]

IdleSync == [phase |-> "idle", list |-> <<>>, res |-> <<>>]
Pending == [status |-> "pending", out |-> <<>>]

Init ==
  /\ countries = [i \in {} |-> NoEntity]
  /\ visits = [v \in {} |-> [countryId |-> NoId, deleted |-> FALSE]]
  /\ nextId = 1
  /\ del = <<>>
  /\ sync = IdleSync
  /\ fetched = Fetched(<<>>)
  /\ series = NoSeries
  /\ last = [op |-> "init", id |-> NoId, hard |-> FALSE, data |-> NoData,
             status |-> "pending", out |-> <<>>, again |-> FALSE]

\* ------------------------------------------------------- service methods
\* What a method that makes one store call returns and leaves behind.
MethodResult(status, out, cs, nid) == [status |-> status, out |-> out, cs |-> cs, nextId |-> nid]

\* getCountry: findFirst among the non-deleted, NotFoundError on null.
GetCountryResult(cs, nid, id) ==
  LET found == FindFirst(cs, id) IN
  IF found = <<>> THEN MethodResult("NotFoundError", <<>>, cs, nid)
  ELSE MethodResult("ok", <<sanitizeCountry(found[1])>>, cs, nid)

\* Faulty variant: getCountries without the length check.
GetCountriesResultEmptyOk(cs, nid) ==
  LET found == FindMany(cs) IN
  MethodResult("ok", [i \in 1..Len(found) |-> sanitizeCountry(found[i])], cs, nid)

\* getCountries: findMany among the non-deleted, NotFoundError on length 0.
GetCountriesResult(cs, nid) ==
  LET found == FindMany(cs) IN
  IF Len(found) = 0 THEN MethodResult("NotFoundError", <<>>, cs, nid)
  ELSE MethodResult("ok", [i \in 1..Len(found) |-> sanitizeCountry(found[i])], cs, nid)

\* The error code updateCountry's catch turns into NotFoundError.
UpdateNotFoundCode == "P2010"

\* updateCountry: update by id; only UpdateNotFoundCode is mapped, any other
\* store error is rethrown as it is.
UpdateCountryResult(cs, nid, id, data) ==
  LET r == RepoUpdate(cs, nid, id, data) IN
  IF r.err = "ok" THEN MethodResult("ok", <<sanitizeCountry(r.rec)>>, r.cs, r.nextId)
  ELSE IF r.err = UpdateNotFoundCode THEN MethodResult("NotFoundError", <<>>, cs, nid)
  ELSE MethodResult(r.err, <<>>, cs, nid)

\* The Visit relation's referential action on a Country delete: none, the
\* Visits keep their countryId and the delete is not refused.
DeleteRestricted(vs, id) == FALSE

\* deleteCountry(id, true): delete by id, store errors unmapped.
DeleteHardResult(cs, nid, vs, id) ==
  LET r == IF DeleteRestricted(vs, id) THEN StoreResult("P2003", cs, nid, NoEntity)
           ELSE RepoDelete(cs, nid, id)
  IN
  IF r.err = "ok" THEN MethodResult("ok", <<sanitizeCountry(r.rec)>>, r.cs, r.nextId)
  ELSE MethodResult(r.err, <<>>, cs, nid)

\* upsertCountry: upsert by abbreviation, store errors unmapped.
UpsertCountryResult(cs, nid, data) ==
  LET r == RepoUpsert(cs, nid, data) IN
  IF r.err = "ok" THEN MethodResult("ok", <<sanitizeCountry(r.rec)>>, r.cs, r.nextId)
  ELSE MethodResult(r.err, <<>>, cs, nid)

\* Faulty variant: createCountry looking for another error code.
CreateCountryResultOtherCode(cs, nid, data) ==
  LET r == RepoCreate(cs, nid, data) IN
  IF r.err = "ok" THEN MethodResult("ok", <<sanitizeCountry(r.rec)>>, r.cs, r.nextId)
  ELSE IF r.err = "P2025" THEN MethodResult("AlreadyExistsError", <<>>, cs, nid)
  ELSE MethodResult(r.err, <<>>, cs, nid)

\* createCountry: create; P2002 becomes AlreadyExistsError, the rest is rethrown.
CreateCountryResult(cs, nid, data) ==
  LET r == RepoCreate(cs, nid, data) IN
  IF r.err = "ok" THEN MethodResult("ok", <<sanitizeCountry(r.rec)>>, r.cs, r.nextId)
  ELSE IF r.err = "P2002" THEN MethodResult("AlreadyExistsError", <<>>, cs, nid)
  ELSE MethodResult(r.err, <<>>, cs, nid)

\* The id sequence stays within the ids the model has.
WithinIds(r) == r.nextId <= MaxId + 1

\* ---------------------------------------------------------------- actions
\* getCountry(id)
GetCountry(id) ==
  LET r == GetCountryResult(countries, nextId, id) IN
  /\ last' = Call("getCountry", id, FALSE, NoData, r.status, r.out)
  /\ UNCHANGED <<countries, visits, nextId, del, sync, fetched, series>>

\* getCountries()
GetCountries ==
  LET r == GetCountriesResult(countries, nextId) IN
  /\ last' = Call("getCountries", NoId, FALSE, NoData, r.status, r.out)
  /\ UNCHANGED <<countries, visits, nextId, del, sync, fetched, series>>

\* updateCountry(id, data)
UpdateCountry(id, data) ==
  LET r == UpdateCountryResult(countries, nextId, id, data) IN
  /\ countries' = r.cs
  /\ last' = Call("updateCountry", id, FALSE, data, r.status, r.out)
  /\ UNCHANGED <<visits, nextId, del, sync, fetched, series>>

\* Faulty variant: a hard delete that flags the Visits as the soft delete does.
DeleteCountryHardCascading(id) ==
  LET r == DeleteHardResult(countries, nextId, visits, id) IN
  /\ countries' = r.cs
  /\ visits' = VisitUpdateMany(visits, id)
  /\ last' = Call("deleteCountry", id, TRUE, NoData, r.status, r.out)
  /\ UNCHANGED <<nextId, del, sync, fetched, series>>

\* Faulty variant: a hard delete that takes the Country's Visits with it.
DeleteCountryHardRemovingVisits(id) ==
  LET r == DeleteHardResult(countries, nextId, visits, id) IN
  /\ countries' = r.cs
  /\ visits' = [v \in {w \in DOMAIN visits : visits[w].countryId # id} |-> visits[v]]
  /\ last' = Call("deleteCountry", id, TRUE, NoData, r.status, r.out)
  /\ UNCHANGED <<nextId, del, sync, fetched, series>>

\* deleteCountry(id, true)
DeleteCountryHard(id) ==
  LET r == DeleteHardResult(countries, nextId, visits, id) IN
  /\ countries' = r.cs
  /\ last' = Call("deleteCountry", id, TRUE, NoData, r.status, r.out)
  /\ UNCHANGED <<visits, nextId, del, sync, fetched, series>>

\* Faulty variant: the Visits flagged in the first step, before the Country.
DeleteCountrySoftVisitsFirst(id) ==
  /\ del = <<>>
  /\ id \in DOMAIN countries
  /\ visits' = VisitUpdateMany(visits, id)
  /\ del' = <<Entity(countries, id)>>
  /\ last' = Internal("deleteCountry")
  /\ UNCHANGED <<countries, nextId, sync, fetched, series>>

\* Faulty variant: the Visits flagged also when the Country write is refused.
DeleteCountrySoftFlagsAnyway(id) ==
  LET r == RepoMarkDeleted(countries, nextId, id) IN
  /\ del = <<>>
  /\ countries' = r.cs
  /\ IF r.err = "ok"
     THEN /\ del' = <<r.rec>>
          /\ visits' = visits
          /\ last' = Internal("deleteCountry")
     ELSE /\ del' = del
          /\ visits' = VisitUpdateMany(visits, id)
          /\ last' = Call("deleteCountry", id, FALSE, NoData, r.err, <<>>)
  /\ UNCHANGED <<nextId, sync, fetched, series>>

\* deleteCountry(id, false), first write: the Country's flag.  A store error
\* ends the call; otherwise the call waits for its second write.
DeleteCountrySoft(id) ==
  LET r == RepoMarkDeleted(countries, nextId, id) IN
  /\ del = <<>>
  /\ countries' = r.cs
  /\ IF r.err = "ok"
     THEN /\ del' = <<r.rec>>
          /\ last' = Internal("deleteCountry")
     ELSE /\ del' = del
          /\ last' = Call("deleteCountry", id, FALSE, NoData, r.err, <<>>)
  /\ UNCHANGED <<visits, nextId, sync, fetched, series>>

\* deleteCountry(id, false), second write: the Visits' flags, then the return
\* of the Country as the first write left it.
DeleteCascade ==
  /\ del # <<>>
  /\ visits' = VisitUpdateMany(visits, del[1].id)
  /\ last' = Call("deleteCountry", del[1].id, FALSE, NoData, "ok", <<sanitizeCountry(del[1])>>)
  /\ del' = <<>>
  /\ UNCHANGED <<countries, nextId, sync, fetched, series>>

\* Faulty variant: the failed second write undoes the first.
DeleteCascadeFailRollsBack ==
  /\ del # <<>>
  /\ countries' = [i \in DOMAIN countries |->
                     IF i = del[1].id THEN [countries[i] EXCEPT !.deleted = FALSE]
                     ELSE countries[i]]
  /\ last' = Call("deleteCountry", del[1].id, FALSE, NoData, "StoreError", <<>>)
  /\ del' = <<>>
  /\ UNCHANGED <<visits, nextId, sync, fetched, series>>

\* deleteCountry(id, false), second write refused by the store: the error is
\* thrown on, nothing is undone.
DeleteCascadeFail ==
  /\ del # <<>>
  /\ last' = Call("deleteCountry", del[1].id, FALSE, NoData, "StoreError", <<>>)
  /\ del' = <<>>
  /\ UNCHANGED <<countries, visits, nextId, sync, fetched, series>>

\* upsertCountry(data)
UpsertCountry(data) ==
  LET r == UpsertCountryResult(countries, nextId, data) IN
  /\ WithinIds(r)
  /\ countries' = r.cs
  /\ nextId' = r.nextId
  /\ last' = Call("upsertCountry", NoId, FALSE, data, r.status, r.out)
  /\ UNCHANGED <<visits, del, sync, fetched, series>>

\* createCountry(data)
CreateCountry(data) ==
  LET r == CreateCountryResult(countries, nextId, data) IN
  /\ WithinIds(r)
  /\ countries' = r.cs
  /\ nextId' = r.nextId
  /\ last' = Call("createCountry", NoId, FALSE, data, r.status, r.out)
  /\ UNCHANGED <<visits, del, sync, fetched, series>>

\* upsertCountriesFromAPI(), up to the Promise.all: the listing is fetched and
\* sanitized and one upsert per record is issued.  Promise.all of no promise
\* resolves at once.
SyncBegin(raws) ==
  LET sanitizedCountries == [i \in 1..Len(raws) |-> sanitizeCountryAPI(raws[i])] IN
  /\ sync.phase = "idle"
  /\ IF Len(raws) = 0
     THEN /\ sync' = IdleSync
          /\ last' = Call("upsertCountriesFromAPI", NoId, FALSE, NoData, "ok", <<>>)
     ELSE /\ sync' = [phase |-> "running", list |-> sanitizedCountries,
                      res |-> [i \in 1..Len(raws) |-> Pending]]
          /\ last' = Internal("upsertCountriesFromAPI")
  /\ fetched' = Fetched(raws)
  /\ UNCHANGED <<countries, visits, nextId, del>>

\* upsertCountriesFromAPI() called once
SyncStart(raws) == SyncBegin(raws) /\ UNCHANGED series

\* upsertCountriesFromAPI() called again and again: a call with the listing of
\* the run before it goes on with the series when that run failed, and starts
\* a series of second runs when it succeeded.
SyncSeriesStart(raws) ==
  LET list == [i \in 1..Len(raws) |-> sanitizeCountryAPI(raws[i])]
      same == list = sync.list /\ Len(list) > 0
      prevOk == \A i \in 1..Len(sync.res) : sync.res[i].status = "ok"
  IN
  /\ SyncBegin(raws)
  /\ series' = IF same /\ ~prevOk THEN [series EXCEPT !.failed = TRUE, !.second = FALSE]
               ELSE [orig |-> countries, nextId |-> nextId, failed |-> FALSE,
                     second |-> same]

\* upsertCountriesFromAPI() when the adapter call fails: the await at the top
\* throws the adapter's error before any upsert is issued.
SyncFetchFail ==
  /\ sync.phase = "idle"
  /\ fetched' = FetchFailed
  /\ last' = Call("upsertCountriesFromAPI", NoId, FALSE, NoData, "UpstreamError", <<>>)
  /\ UNCHANGED <<countries, visits, nextId, del, sync, series>>

\* Faulty variant: a failed fetch taken for an empty listing.
GetExternalCountriesResultSwallows(resp) ==
  [status |-> "ok", out |-> [i \in 1..Len(resp.raws) |-> sanitizeCountryAPI(resp.raws[i])]]

\* getExternalCountries: the adapter's listing, each record sanitized, in the
\* order received; the adapter's error is thrown on.
GetExternalCountriesResult(resp) ==
  IF resp.ok
  THEN [status |-> "ok", out |-> [i \in 1..Len(resp.raws) |-> sanitizeCountryAPI(resp.raws[i])]]
  ELSE [status |-> "UpstreamError", out |-> <<>>]

\* getExternalCountries(), the adapter answering resp
GetExternalCountries(resp) ==
  LET r == GetExternalCountriesResult(resp) IN
  /\ fetched' = resp
  /\ last' = Call("getExternalCountries", NoId, FALSE, NoData, r.status, r.out)
  /\ UNCHANGED <<countries, visits, nextId, del, sync, series>>

\* What Promise.all makes of the upserts' results so far.
AllOk(res) == \A i \in 1..Len(res) : res[i].status = "ok"
NonePending(res) == \A i \in 1..Len(res) : res[i].status # "pending"
\* Faulty variant: the outputs with one entry per Country.
RECURSIVE OutputsDistinct(_)
OutputsDistinct(res) ==
  IF Len(res) = 0 THEN <<>>
  ELSE LET front == SubSeq(res, 1, Len(res) - 1)
           o == res[Len(res)].out[1]
       IN  IF \E i \in 1..Len(front) : front[i].out[1].id = o.id
           THEN OutputsDistinct(front)
           ELSE Append(OutputsDistinct(front), o)
Outputs(res) == [i \in 1..Len(res) |-> res[i].out[1]]

\* Faulty variant: a join that waits for every upsert and returns those that succeeded.
SyncOutcomeSettled(phase, r, res2) ==
  IF phase = "running" /\ NonePending(res2)
  THEN LET oks == SelectSeq(res2, LAMBDA x : x.status = "ok") IN
       Call("upsertCountriesFromAPI", NoId, FALSE, NoData, "ok", Outputs(oks))
  ELSE Internal("upsertCountriesFromAPI")

\* What the awaited Promise.all gives the call when an upsert with result r
\* has just settled, res2 being the results so far: the first rejection is
\* thrown on; all fulfilled, the outputs are returned; else the call waits.
SyncOutcome(phase, r, res2) ==
  IF phase = "running" /\ r.status # "ok"
  THEN Call("upsertCountriesFromAPI", NoId, FALSE, NoData, r.status, <<>>)
  ELSE IF phase = "running" /\ AllOk(res2)
  THEN Call("upsertCountriesFromAPI", NoId, FALSE, NoData, "ok", Outputs(res2))
  ELSE Internal("upsertCountriesFromAPI")

\* One of the issued upserts reaches the store.  The first to fail rejects
\* the Promise.all, and so the call; the others still run.  When the last one
\* succeeds with none failed, the call returns the outputs in input order.
\* `sync` keeps the listing and the results of a finished run until the next.
SyncUpsert(i) ==
  LET r == UpsertCountryResult(countries, nextId, sync.list[i])
      res2 == [sync.res EXCEPT ![i] = [status |-> r.status, out |-> r.out]]
  IN
  /\ sync.phase \in {"running", "rejected"}
  /\ i \in 1..Len(sync.list)
  /\ sync.res[i].status = "pending"
  /\ WithinIds(r)
  /\ countries' = r.cs
  /\ nextId' = r.nextId
  /\ sync' = [sync EXCEPT !.res = res2,
                          !.phase = IF NonePending(res2) THEN "idle"
                                    ELSE IF r.status = "ok" THEN sync.phase
                                    ELSE "rejected"]
  /\ last' = SyncOutcome(sync.phase, r, res2)
  /\ UNCHANGED <<visits, del, fetched, series>>

\* One of the issued upserts is refused by the store for a reason of its own
\* (connection, timeout): nothing is written, the Promise.all is rejected as
\* by any other rejection.
SyncUpsertFail(i) ==
  LET r == MethodResult("StoreError", <<>>, countries, nextId)
      res2 == [sync.res EXCEPT ![i] = [status |-> r.status, out |-> r.out]]
  IN
  /\ sync.phase \in {"running", "rejected"}
  /\ i \in 1..Len(sync.list)
  /\ sync.res[i].status = "pending"
  /\ sync' = [sync EXCEPT !.res = res2,
                          !.phase = IF NonePending(res2) THEN "idle" ELSE "rejected"]
  /\ last' = SyncOutcome(sync.phase, r, res2)
  /\ UNCHANGED <<countries, visits, nextId, del, fetched, series>>

\* A Visit row written by the rest of the application, for a stored Country.
AddVisit(c) ==
  LET v == Cardinality(DOMAIN visits) + 1 IN
  /\ v <= MaxVisits
  /\ c \in DOMAIN countries
  /\ visits' = [w \in DOMAIN visits \cup {v} |->
                  IF w = v THEN [countryId |-> c, deleted |-> FALSE] ELSE visits[w]]
  /\ last' = Internal("addVisit")
  /\ UNCHANGED <<countries, nextId, del, sync, fetched, series>>

RECURSIVE SeqsUpTo(_, _)
SeqsUpTo(S, n) ==
  IF n = 0 THEN {<<>>}
  ELSE LET shorter == SeqsUpTo(S, n - 1) IN
       shorter \cup {Append(s, x) : s \in {t \in shorter : Len(t) = n - 1}, x \in S}
\* The external listings the adapter may return.
Listings == SeqsUpTo(RawRecords, MaxList)

\* The service's calls on Countries, interleaved at their awaits.
Next ==
  \/ \E id \in Ids : GetCountry(id)
  \/ GetCountries
  \/ \E id \in Ids, data \in UpdateDtos : UpdateCountry(id, data)
  \/ \E id \in Ids : DeleteCountryHard(id)
  \/ \E id \in Ids : DeleteCountrySoft(id)
  \/ DeleteCascade
  \/ DeleteCascadeFail
  \/ \E data \in CreateDtos : UpsertCountry(data)
  \/ \E data \in CreateDtos : CreateCountry(data)

Spec == Init /\ [][Next]_vars

\* Countries with Visits: the deletes and the listing, among creations and
\* Visit rows written meanwhile.
VisitNext ==
  \/ \E c \in Ids : AddVisit(c)
  \/ \E data \in CreateDtos : CreateCountry(data)
  \/ \E data \in CreateDtos : UpsertCountry(data)
  \/ \E id \in Ids : DeleteCountryHard(id)
  \/ \E id \in Ids : DeleteCountrySoft(id)
  \/ DeleteCascade
  \/ DeleteCascadeFail
  \/ GetCountries

VisitSpec == Init /\ [][VisitNext]_vars

\* upsertCountriesFromAPI, run after run, its upserts in any order, among hard
\* deletes that remove what an upsert wrote or is about to find.
SyncNext ==
  \/ \E raws \in Listings : SyncStart(raws)
  \/ \E i \in 1..MaxList : SyncUpsert(i)
  \/ \E id \in Ids : DeleteCountryHard(id)

SyncSpec == Init /\ [][SyncNext]_vars

\* getExternalCountries with the adapter answering or failing, and the sync
\* with the adapter failing, over a store that createCountry fills.
ExternalNext ==
  \/ \E raws \in Listings : GetExternalCountries(Fetched(raws))
  \/ GetExternalCountries(FetchFailed)
  \/ SyncFetchFail
  \/ \E data \in CreateDtos : CreateCountry(data)

ExternalSpec == Init /\ [][ExternalNext]_vars

\* The updates that move a Country to another abbreviation.
AbbreviationDtos == {d \in UpdateDtos : d.name = Absent /\ d.abbreviation # Absent}

\* Every operation that writes Countries, interleaved: createCountry,
\* updateCountry, both deleteCountry paths, and the sync with its upsertCountry
\* calls in flight.
WriteNext ==
  \/ \E data \in CreateDtos : CreateCountry(data)
  \/ \E id \in Ids, data \in AbbreviationDtos : UpdateCountry(id, data)
  \/ \E id \in Ids : DeleteCountryHard(id)
  \/ \E id \in Ids : DeleteCountrySoft(id)
  \/ DeleteCascade
  \/ \E raws \in Listings : SyncStart(raws)
  \/ \E i \in 1..MaxList : SyncUpsert(i)

WriteSpec == Init /\ [][WriteNext]_vars

\* upsertCountry, called directly and by a sync, over Countries that soft
\* deletes flag.
UpsertNext ==
  \/ \E data \in CreateDtos : UpsertCountry(data)
  \/ \E raws \in Listings : SyncStart(raws)
  \/ \E i \in 1..MaxList : SyncUpsert(i)
  \/ \E id \in Ids : DeleteCountrySoft(id)
  \/ DeleteCascade

UpsertSpec == Init /\ [][UpsertNext]_vars

\* The sync run again and again, its upserts in any order, any of them or the
\* adapter failing.
ResyncNext ==
  \/ \E raws \in Listings : SyncSeriesStart(raws)
  \/ SyncFetchFail
  \/ \E i \in 1..MaxList : SyncUpsert(i)
  \/ \E i \in 1..MaxList : SyncUpsertFail(i)

ResyncSpec == Init /\ [][ResyncNext]_vars

\* ------------------------------------------------------------------ claims
WithAbbreviation(cs, abbr) == {i \in DOMAIN cs : cs[i].abbreviation = abbr}
\* Some Country other than the one with data's abbreviation holds data's name.
NameHeldElsewhere(cs, data) ==
  \E i \in DOMAIN cs : cs[i].name = data.name /\ cs[i].abbreviation # data.abbreviation
Output(cs, i) == [id |-> i, name |-> cs[i].name, abbreviation |-> cs[i].abbreviation]

\* C1 as stated: after upsertCountry(R) twice in sequence, for any R in any
\* state, exactly one stored Country has R's abbreviation.
C1_Original ==
  (last.op = "upsertCountry" /\ last.again)
    => Cardinality(WithAbbreviation(countries, last.data.abbreviation)) = 1

\* C1: the second of two upsertCountry(R) in sequence leaves the store and the
\* id sequence as the first left them and returns what the first returned.
\* When the first succeeded, exactly one stored Country has R's abbreviation,
\* the one both calls returned.  It failed exactly when another Country holds
\* R's name, with the store's P2002.
C1_UpsertTwice ==
  [][(last'.op = "upsertCountry" /\ last'.again) =>
       /\ countries' = countries
       /\ nextId' = nextId
       /\ last'.status = last.status
       /\ last'.out = last.out
       /\ (last.status = "ok") <=> ~NameHeldElsewhere(countries, last.data)
       /\ last.status = "ok" =>
            \E i \in DOMAIN countries' :
               /\ WithAbbreviation(countries', last.data.abbreviation) = {i}
               /\ countries'[i].name = last.data.name
               /\ last'.out = <<Output(countries', i)>>
       /\ last.status # "ok" => last.status = "P2002"
    ]_vars

C1_Witness == last.op = "upsertCountry" /\ last.again /\ last.status = "ok"

Stored(cs, id) == id \in DOMAIN cs
Active(cs, id) == id \in DOMAIN cs /\ ~cs[id].deleted
SoftDeleted(cs, id) == id \in DOMAIN cs /\ cs[id].deleted

\* C5: getCountry(id) succeeds, with the Country's output, exactly when a
\* Country with that id is stored with deleted = false; else it fails with
\* NotFoundError, so also for a soft-deleted Country that is still stored.
C5_GetRespectsSoftDelete ==
  last.op = "getCountry" =>
    IF Active(countries, last.id)
    THEN last.status = "ok" /\ last.out = <<Output(countries, last.id)>>
    ELSE last.status = "NotFoundError" /\ last.out = <<>>

C5_Witness ==
  last.op = "getCountry" /\ SoftDeleted(countries, last.id) /\ last.status = "NotFoundError"

\* Some stored Country has data's abbreviation or data's name.
Clash(cs, data) ==
  \E i \in DOMAIN cs : cs[i].abbreviation = data.abbreviation \/ cs[i].name = data.name

CreateRejected ==
  (last'.op = "createCountry" /\ Clash(countries, last'.data)) =>
     /\ last'.status = "AlreadyExistsError"
     /\ last'.out = <<>>
     /\ countries' = countries
     /\ nextId' = nextId

\* data written over the one row that has its abbreviation, nothing else touched.
UpsertUpdates(data) ==
  /\ last'.status = "ok"
  /\ nextId' = nextId
  /\ DOMAIN countries' = DOMAIN countries
  /\ \E i \in WithAbbreviation(countries, data.abbreviation) :
        /\ countries'[i] = [name |-> data.name, abbreviation |-> data.abbreviation,
                            deleted |-> countries[i].deleted]
        /\ last'.out = <<Output(countries', i)>>
        /\ \A j \in DOMAIN countries \ {i} : countries'[j] = countries[j]

\* C6 as stated: on a record whose abbreviation or name is that of a stored
\* Country, createCountry fails with AlreadyExistsError and changes nothing,
\* and upsertCountry does not fail and updates the existing record.
C6_Original ==
  [][/\ CreateRejected
     /\ (last'.op = "upsertCountry" /\ Clash(countries, last'.data))
          => UpsertUpdates(last'.data)
    ]_vars

\* C6: on a record whose abbreviation or name is that of a stored Country,
\* createCountry fails with AlreadyExistsError and changes nothing.
\* upsertCountry on it updates the Country with that abbreviation, unless a
\* Country with another abbreviation holds the name: then it fails with the
\* store's P2002 and changes nothing.
C6_Uniqueness ==
  [][/\ CreateRejected
     /\ (last'.op = "upsertCountry" /\ Clash(countries, last'.data)) =>
          IF NameHeldElsewhere(countries, last'.data)
          THEN /\ last'.status = "P2002"
               /\ last'.out = <<>>
               /\ countries' = countries
               /\ nextId' = nextId
          ELSE UpsertUpdates(last'.data)
    ]_vars

C6_Witness ==
  last.op = "createCountry" /\ last.again /\ last.status = "AlreadyExistsError"

\* C7: getCountries() fails with NotFoundError when no stored Country has
\* deleted = false; otherwise it returns one output per such Country and none
\* for a soft-deleted one.
C7_EmptyListFails ==
  last.op = "getCountries" =>
    LET active == {i \in DOMAIN countries : ~countries[i].deleted} IN
    IF active = {}
    THEN last.status = "NotFoundError" /\ last.out = <<>>
    ELSE /\ last.status = "ok"
         /\ Len(last.out) = Cardinality(active)
         /\ {last.out[k].id : k \in 1..Len(last.out)} = active
         /\ \A k \in 1..Len(last.out) : last.out[k] = Output(countries, last.out[k].id)

C7_Witness ==
  /\ last.op = "getCountries" /\ last.status = "NotFoundError"
  /\ DOMAIN countries # {}

\* C8 as stated: updateCountry(id, data) for an id no stored Country has fails
\* with NotFoundError.
C8_UpdateNotFound ==
  (last.op = "updateCountry" /\ ~Stored(countries, last.id))
     => last.status = "NotFoundError"

\* The row of id with the partial data laid over it.
Updated(cs, id, data) ==
  [name |-> IF data.name = Absent THEN cs[id].name ELSE data.name,
   abbreviation |-> IF data.abbreviation = Absent THEN cs[id].abbreviation
                    ELSE data.abbreviation,
   deleted |-> cs[id].deleted]
\* Another Country has the name or the abbreviation the update would write.
Collides(cs, id, data) ==
  \E j \in DOMAIN cs \ {id} :
     \/ cs[j].name = Updated(cs, id, data).name
     \/ cs[j].abbreviation = Updated(cs, id, data).abbreviation

\* C9 as stated: updateCountry on a soft-deleted Country (no soft delete
\* under way) succeeds.
C9_Original ==
  [][(last'.op = "updateCountry" /\ SoftDeleted(countries, last'.id) /\ del = <<>>)
       => last'.status = "ok"]_vars

\* C9: updateCountry(id, data) on a soft-deleted Country is not NotFoundError:
\* it writes the partial fields over the Country, which stays soft-deleted,
\* and returns it, unless another Country has the name or abbreviation to be
\* written, and then the store's P2002 is thrown and nothing changes.
\* getCountry(id) in the state it leaves fails with NotFoundError.
C9_UpdateIgnoresDeleted ==
  [][(last'.op = "updateCountry" /\ SoftDeleted(countries, last'.id)) =>
       /\ IF Collides(countries, last'.id, last'.data)
          THEN /\ last'.status = "P2002"
               /\ last'.out = <<>>
               /\ countries' = countries
          ELSE /\ last'.status = "ok"
               /\ countries' = [countries EXCEPT
                                  ![last'.id] = Updated(countries, last'.id, last'.data)]
               /\ last'.out = <<Output(countries', last'.id)>>
       /\ SoftDeleted(countries', last'.id)
       /\ GetCountryResult(countries', nextId', last'.id).status = "NotFoundError"
    ]_vars

C9_Witness ==
  /\ last.op = "updateCountry" /\ last.status = "ok"
  /\ SoftDeleted(countries, last.id)
  /\ last.data.name # Absent

VisitsOf(vs, id) == {v \in DOMAIN vs : vs[v].countryId = id}
SoftDeleteDone == last.op = "deleteCountry" /\ ~last.hard /\ last.status = "ok"

\* C3: when deleteCountry(id, false) has returned the Country, no stored
\* Country with that id is active (the call's first write flagged it), every
\* Visit whose countryId is id has deleted = true, and a getCountries() that
\* follows does not contain the Country.
C3_SoftDeleteCascade ==
  [][/\ SoftDeleteDone' =>
          /\ ~Active(countries', last'.id)
          /\ \A v \in VisitsOf(visits', last'.id) : visits'[v].deleted
          /\ Len(last'.out) = 1 /\ last'.out[1].id = last'.id
          /\ \A k \in 1..Len(GetCountriesResult(countries', nextId').out) :
                GetCountriesResult(countries', nextId').out[k].id # last'.id
     /\ (SoftDeleteDone /\ last'.op = "getCountries") =>
          \A k \in 1..Len(last'.out) : last'.out[k].id # last.id
    ]_vars

C3_Witness ==
  /\ SoftDeleteDone
  /\ SoftDeleted(countries, last.id)
  /\ Cardinality(VisitsOf(visits, last.id)) = 2
  /\ \E i \in DOMAIN countries : ~countries[i].deleted

\* C4: deleteCountry(id, true) on a stored Country, active or soft-deleted,
\* removes it, returns its last state, and changes no Visit and no other
\* Country; the Visits whose countryId is id stay as they were.
C4_HardDeleteNoCascade ==
  [][(last'.op = "deleteCountry" /\ last'.hard /\ Stored(countries, last'.id)) =>
       /\ last'.status = "ok"
       /\ last'.out = <<Output(countries, last'.id)>>
       /\ DOMAIN countries' = DOMAIN countries \ {last'.id}
       /\ \A j \in DOMAIN countries' : countries'[j] = countries[j]
       /\ visits' = visits
    ]_vars

C4_Witness ==
  /\ last.op = "deleteCountry" /\ last.hard /\ last.status = "ok"
  /\ ~Stored(countries, last.id)
  /\ \E v \in VisitsOf(visits, last.id) : visits[v].deleted
  /\ \E v \in VisitsOf(visits, last.id) : ~visits[v].deleted

\* In this step the i-th upsert of the running listing reaches the store.
UpsertSettles(i) ==
  /\ i \in 1..Len(sync.list)
  /\ sync.phase \in {"running", "rejected"}
  /\ sync.res[i].status = "pending"
  /\ sync'.list = sync.list
  /\ sync'.res[i].status # "pending"
\* In this step upsertCountriesFromAPI returns or throws.
SyncReturns == last'.op = "upsertCountriesFromAPI" /\ last'.status # "pending"
NoDuplicateAbbreviation(cs) ==
  \A i, j \in DOMAIN cs : i # j => cs[i].abbreviation # cs[j].abbreviation
\* Output k is the output of input k.
OutputsMatchInputs(out, list) ==
  /\ Len(out) = Len(list)
  /\ \A k \in 1..Len(list) :
        out[k].abbreviation = list[k].abbreviation /\ out[k].name = list[k].name

\* C2 as stated: upsertCountriesFromAPI over a listing of N records returns N
\* output records, one per input, and no two stored Countries share an
\* abbreviation.
C2_Original ==
  [][SyncReturns =>
       /\ last'.status = "ok"
       /\ OutputsMatchInputs(last'.out, sync'.list)
       /\ NoDuplicateAbbreviation(countries')
    ]_vars

\* C2: when upsertCountriesFromAPI returns, it returns exactly one output per
\* record of the listing, in input order, with that record's abbreviation and
\* name.  No two stored Countries ever share an abbreviation, also when the
\* listing has an abbreviation twice: each upsert that succeeds leaves exactly
\* one Country with its abbreviation, holding its record (last write wins).
\* An upsert fails only with the store's P2002, when a Country with another
\* abbreviation holds its record's name.
C2_SyncCardinality ==
  [][/\ NoDuplicateAbbreviation(countries')
     /\ \A i \in 1..MaxList : UpsertSettles(i) =>
          IF sync'.res[i].status = "ok"
          THEN \E k \in DOMAIN countries' :
                  /\ WithAbbreviation(countries', sync.list[i].abbreviation) = {k}
                  /\ countries'[k].name = sync.list[i].name
                  /\ sync'.res[i].out = <<Output(countries', k)>>
          ELSE /\ sync'.res[i].status = "P2002"
               /\ NameHeldElsewhere(countries, sync.list[i])
               /\ countries' = countries
     /\ (SyncReturns /\ last'.status = "ok") =>
          OutputsMatchInputs(last'.out, sync'.list)
    ]_vars

C2_Witness ==
  /\ last.op = "upsertCountriesFromAPI" /\ last.status = "ok"
  /\ Len(last.out) = 2 /\ Len(sync.list) = 2
  /\ sync.list[1].abbreviation = sync.list[2].abbreviation
  /\ sync.list[1].name # sync.list[2].name
  /\ Cardinality(WithAbbreviation(countries, sync.list[1].abbreviation)) = 1

\* C10: the first per-record upsert to fail makes upsertCountriesFromAPI fail
\* with that upsert's error and no output, whatever the other upserts did or
\* will do; the call returns outputs only when every upsert succeeded, and
\* returns nothing more once it has failed.
C10_SyncFailFast ==
  [][/\ \A i \in 1..MaxList :
          (UpsertSettles(i) /\ sync.phase = "running" /\ sync'.res[i].status # "ok") =>
             /\ last'.op = "upsertCountriesFromAPI"
             /\ last'.status = sync'.res[i].status
             /\ last'.out = <<>>
     /\ (SyncReturns /\ last'.status = "ok") =>
          \A k \in 1..Len(sync'.res) : sync'.res[k].status = "ok"
     /\ (SyncReturns /\ last'.status # "ok") => last'.out = <<>>
     /\ sync.phase = "rejected" => ~SyncReturns
     /\ (\E k \in 1..Len(sync'.res) : sync'.res[k].status \notin {"ok", "pending"})
          => sync'.phase # "running"
    ]_vars

C10_Witness ==
  /\ last.op = "upsertCountriesFromAPI" /\ last.status = "P2002" /\ last.out = <<>>
  /\ \E k \in 1..Len(sync.res) : sync.res[k].status = "ok"

\* In this step a call asks the adapter.
Fetches ==
  \/ last'.op = "getExternalCountries"
  \/ last'.op = "upsertCountriesFromAPI" /\ sync.phase = "idle"
StoreUnchanged == countries' = countries /\ visits' = visits /\ nextId' = nextId

\* C11: when the adapter call fails, getExternalCountries and
\* upsertCountriesFromAPI fail with the adapter's error and no output, no
\* upsert is issued and the store is unchanged.  When it succeeds,
\* getExternalCountries returns one sanitized record per raw record, in the
\* order received, and writes nothing.
C11_AdapterFailure ==
  [][/\ (Fetches /\ ~fetched'.ok) =>
          /\ last'.status = "UpstreamError"
          /\ last'.out = <<>>
          /\ sync' = sync
          /\ StoreUnchanged
     /\ last'.op = "getExternalCountries" =>
          /\ StoreUnchanged
          /\ sync' = sync
          /\ fetched'.ok =>
               /\ last'.status = "ok"
               /\ Len(last'.out) = Len(fetched'.raws)
               /\ \A k \in 1..Len(fetched'.raws) :
                     last'.out[k] = [name |-> fetched'.raws[k].name,
                                     abbreviation |-> fetched'.raws[k].abbreviation]
    ]_vars

C11_Witness ==
  /\ last.op = "upsertCountriesFromAPI" /\ last.status = "UpstreamError"
  /\ ~fetched.ok
  /\ DOMAIN countries # {}

\* Some soft-deleted Country has this abbreviation.
SoftDeletedHolds(cs, abbr) == \E i \in DOMAIN cs : cs[i].deleted /\ cs[i].abbreviation = abbr

\* C12: whatever the interleaving of createCountry, upsertCountry (alone or in
\* a sync), updateCountry and deleteCountry, no two stored Countries, active or
\* soft-deleted, have the same abbreviation; createCountry with the
\* abbreviation of a soft-deleted Country is rejected and stores nothing.
C12_AbbreviationUnique ==
  [][/\ NoDuplicateAbbreviation(countries')
     /\ (last'.op = "createCountry" /\ SoftDeletedHolds(countries, last'.data.abbreviation)) =>
          /\ last'.status = "AlreadyExistsError"
          /\ countries' = countries
    ]_vars

C12_Witness ==
  /\ last.op = "createCountry" /\ last.status = "AlreadyExistsError"
  /\ SoftDeletedHolds(countries, last.data.abbreviation)
  /\ \A i \in DOMAIN countries : countries[i].name # last.data.name
  /\ sync.phase = "running"

\* C13: no step of a Country operation removes a Visit or changes its
\* countryId, and the only change to a Visit is deleted going from false to
\* true.  (New Visit rows are the rest of the application's.)
C13_VisitsPreserved ==
  [][last'.op # "addVisit" =>
       /\ DOMAIN visits' = DOMAIN visits
       /\ \A v \in DOMAIN visits :
             /\ visits'[v].countryId = visits[v].countryId
             /\ visits[v].deleted => visits'[v].deleted
    ]_vars

C13_Witness ==
  /\ last.op = "deleteCountry" /\ last.hard /\ last.status = "ok"
  /\ \E v, w \in DOMAIN visits :
        /\ visits[v].countryId = last.id /\ visits[v].deleted
        /\ visits[w].countryId = last.id /\ ~visits[w].deleted

\* C14: a Country whose deleted flag is true keeps it true through every step
\* of createCountry, updateCountry, soft deleteCountry and the sync's
\* upsertCountry calls; it stops being a soft-deleted stored Country only by
\* the hard delete of its id.
C14_DeletedMonotonic ==
  [][\A id \in DOMAIN countries : countries[id].deleted =>
        IF id \in DOMAIN countries'
        THEN countries'[id].deleted
        ELSE last'.op = "deleteCountry" /\ last'.hard /\ last'.id = id /\ last'.status = "ok"
    ]_vars

C14_Witness ==
  /\ last.op = "updateCountry" /\ last.status = "ok"
  /\ SoftDeleted(countries, last.id)
  /\ countries[last.id].abbreviation = last.data.abbreviation
  /\ del = <<>>

\* The upsert of data, answered with status and out, has written data over the
\* soft-deleted Country with its abbreviation and nothing else; the Country is
\* still flagged, and getCountry and getCountries do not show it.
OverwritesDeleted(data, status, out) ==
  \E k \in DOMAIN countries :
     /\ countries[k].deleted /\ countries[k].abbreviation = data.abbreviation
     /\ status = "ok"
     /\ nextId' = nextId
     /\ DOMAIN countries' = DOMAIN countries
     /\ out = <<Output(countries', k)>>
     /\ countries'[k] = [name |-> data.name, abbreviation |-> data.abbreviation,
                         deleted |-> TRUE]
     /\ \A j \in DOMAIN countries \ {k} : countries'[j] = countries[j]
     /\ GetCountryResult(countries', nextId', k).status = "NotFoundError"
     /\ \A n \in 1..Len(GetCountriesResult(countries', nextId').out) :
           GetCountriesResult(countries', nextId').out[n].id # k
\* The upsert of data is refused with the store's P2002 and writes nothing.
UpsertRefused(status, out) ==
  status = "P2002" /\ out = <<>> /\ countries' = countries /\ nextId' = nextId

\* C15 as stated: every upsertCountry(R), direct (no soft delete under way) or
\* one of a sync's, whose abbreviation is that of a soft-deleted Country
\* overwrites that Country.
C15_Original ==
  [][/\ (/\ last'.op = "upsertCountry" /\ del = <<>>
         /\ SoftDeletedHolds(countries, last'.data.abbreviation))
          => OverwritesDeleted(last'.data, last'.status, last'.out)
     /\ \A i \in 1..MaxList :
          (UpsertSettles(i) /\ SoftDeletedHolds(countries, sync.list[i].abbreviation))
          => OverwritesDeleted(sync.list[i], sync'.res[i].status, sync'.res[i].out)
    ]_vars

\* C15: an upsertCountry(R), direct or one of a sync's, whose abbreviation is
\* that of a soft-deleted Country writes R over that Country, creates no
\* record and leaves deleted = true, so that getCountry and getCountries still
\* do not show it, unless another Country holds R's name: then it is refused
\* with the store's P2002 and writes nothing.
C15_UpsertKeepsDeleted ==
  [][/\ (last'.op = "upsertCountry" /\ SoftDeletedHolds(countries, last'.data.abbreviation))
          => IF NameHeldElsewhere(countries, last'.data)
             THEN UpsertRefused(last'.status, last'.out)
             ELSE OverwritesDeleted(last'.data, last'.status, last'.out)
     /\ \A i \in 1..MaxList :
          (UpsertSettles(i) /\ SoftDeletedHolds(countries, sync.list[i].abbreviation))
          => IF NameHeldElsewhere(countries, sync.list[i])
             THEN UpsertRefused(sync'.res[i].status, sync'.res[i].out)
             ELSE OverwritesDeleted(sync.list[i], sync'.res[i].status, sync'.res[i].out)
    ]_vars

C15_Witness ==
  /\ last.op = "upsertCountriesFromAPI" /\ last.status = "ok"
  /\ Len(last.out) = MaxList
  /\ \A k \in 1..Len(last.out) : SoftDeleted(countries, last.out[k].id)

\* No flagged Visit refers to an active Country.
NoFlaggedVisitOfActive(cs, vs) ==
  \A v \in DOMAIN vs : vs[v].deleted => ~Active(cs, vs[v].countryId)

\* C16: the Visit write of a soft deleteCountry comes after its Country write:
\* a step that flags a Visit belongs to a soft delete whose Country is already
\* flagged (or gone), and in no state is a Visit flagged while the Country it
\* refers to is stored with deleted = false.  (The state in between the two
\* writes, seen by an interleaved getCountries, is C16_Witness.)
C16_CountryBeforeVisits ==
  [][/\ NoFlaggedVisitOfActive(countries', visits')
     /\ \A v \in DOMAIN visits : (visits'[v].deleted /\ ~visits[v].deleted) =>
           /\ del # <<>> /\ del[1].id = visits[v].countryId
           /\ ~Active(countries, visits[v].countryId)
    ]_vars

C16_Witness ==
  /\ del # <<>>
  /\ SoftDeleted(countries, del[1].id)
  /\ \E v \in DOMAIN visits : visits[v].countryId = del[1].id /\ ~visits[v].deleted
  /\ last.op = "getCountries" /\ last.status = "ok"

\* In this step a soft deleteCountry ends with the error of its Visit write.
CascadeFails == last'.op = "deleteCountry" /\ ~last'.hard /\ last'.status = "StoreError"

\* C17: when the Visit updateMany of a soft deleteCountry fails after its
\* Country update went through, the call fails with the store's error and
\* returns nothing, no Country and no Visit is changed by the failure, and the
\* Country (if no hard delete took it meanwhile) still has deleted = true.
C17_NoRollback ==
  [][CascadeFails =>
       /\ last'.out = <<>>
       /\ countries' = countries
       /\ visits' = visits
       /\ Stored(countries', last'.id) => countries'[last'.id].deleted
    ]_vars

C17_Witness ==
  /\ last.op = "deleteCountry" /\ ~last.hard /\ last.status = "StoreError"
  /\ SoftDeleted(countries, last.id)
  /\ \E v \in VisitsOf(visits, last.id) : ~visits[v].deleted

\* The Countries of a store without their ids.
Content(cs) == {cs[i] : i \in DOMAIN cs}
\* The orders in which n upserts can reach the store.
Orders(n) == {p \in [1..n -> 1..n] : \A i, j \in 1..n : i # j => p[i] # p[j]}
\* The upserts of list from the k-th of order p on, applied to cs while they
\* succeed.
RECURSIVE RunFrom(_, _, _, _, _)
RunFrom(cs, nid, list, p, k) ==
  IF k > Len(list) THEN [ok |-> TRUE, cs |-> cs]
  ELSE LET r == UpsertCountryResult(cs, nid, list[p[k]]) IN
       IF r.status = "ok" THEN RunFrom(r.cs, r.nextId, list, p, k + 1)
       ELSE [ok |-> FALSE, cs |-> cs]
\* What a single successful run over list can leave of the store cs.
SingleRuns(cs, nid, list) ==
  {Content(RunFrom(cs, nid, list, p, 1).cs) :
     p \in {q \in Orders(Len(list)) : RunFrom(cs, nid, list, q, 1).ok}}
\* In this step a run of the sync over a listing with records returns them.
SyncSucceeds == SyncReturns /\ last'.status = "ok" /\ Len(sync'.list) > 0
\* No abbreviation is in the listing with two names.
OneNamePerAbbreviation(list) ==
  \A i, j \in 1..Len(list) :
     list[i].abbreviation = list[j].abbreviation => list[i].name = list[j].name

\* C18 as stated: a successful run leaves what a single successful run from
\* the store before the series leaves, and a successful run that follows a
\* successful run over the same listing leaves the store as it found it.
C18_Original ==
  [][SyncSucceeds =>
       /\ Content(countries') \in SingleRuns(series.orig, series.nextId, sync'.list)
       /\ series.second => countries' = series.orig
    ]_vars

\* C18: over one listing, a successful run, after any number of failed runs
\* that applied some of their upserts, leaves the Countries that a single
\* successful run from the store before the first of them can leave; and a
\* successful run that follows a successful run changes nothing in the store,
\* provided the listing has no abbreviation with two names.
C18_SyncRerun ==
  [][SyncSucceeds =>
       /\ Content(countries') \in SingleRuns(series.orig, series.nextId, sync'.list)
       /\ (series.second /\ OneNamePerAbbreviation(sync'.list)) =>
             /\ countries' = series.orig
             /\ nextId' = series.nextId
    ]_vars

C18_Witness ==
  /\ last.op = "upsertCountriesFromAPI" /\ last.status = "ok"
  /\ series.failed
  /\ Len(sync.list) = MaxList
  /\ DOMAIN series.orig # {}
  /\ Content(countries) # Content(series.orig)

\* In this step deleteCountry is called, hard or soft, with an id that no
\* stored Country has.
DeletesMissing ==
  /\ last'.op = "deleteCountry" /\ last'.status # "pending"
  /\ ~Stored(countries, last'.id)
  /\ last'.hard \/ del = <<>>

\* C19: deleteCountry(id, hard) with an id that no stored Country has fails,
\* hard or soft, with the store's own error (P2025, no NotFoundError), changes
\* no Country and no Visit, and in the soft path issues no Visit write: the
\* Visits whose countryId is id keep their flags.
C19_DeleteMissing ==
  [][DeletesMissing =>
       /\ last'.status = "P2025"
       /\ last'.out = <<>>
       /\ countries' = countries
       /\ visits' = visits
       /\ del' = del
    ]_vars

C19_Witness ==
  /\ last.op = "deleteCountry" /\ ~last.hard /\ last.status = "P2025"
  /\ ~Stored(countries, last.id)
  /\ \E v \in VisitsOf(visits, last.id) : ~visits[v].deleted

\* Every Visit of the Country is flagged.
CascadeHolds(vs, id) == \A v \in VisitsOf(vs, id) : vs[v].deleted

\* C20: a soft deleteCountry fails at its first write only for an id that is
\* not stored, so never for a Country that is already soft-deleted: on such a
\* Country the first write changes nothing and the call goes on to its Visit
\* write.  When the call returns, the Country (if still stored) has
\* deleted = true, every Visit referring to it is flagged and no other Visit
\* is touched; if they were all flagged before, no Visit changes.
C20_SoftDeleteRepeatable ==
  [][/\ (del = <<>> /\ last'.op = "deleteCountry" /\ ~last'.hard /\ last'.status # "pending")
          => ~Stored(countries, last'.id)
     /\ \A id \in Ids : (del = <<>> /\ del' # <<>> /\ del'[1].id = id /\ SoftDeleted(countries, id))
          => countries' = countries /\ visits' = visits
     /\ (del # <<>> /\ SoftDeleteDone') =>
          /\ last'.id = del[1].id
          /\ countries' = countries
          /\ Stored(countries', last'.id) => countries'[last'.id].deleted
          /\ CascadeHolds(visits', last'.id)
          /\ \A v \in DOMAIN visits \ VisitsOf(visits, last'.id) : visits'[v] = visits[v]
          /\ CascadeHolds(visits, last'.id) => visits' = visits
    ]_vars

C20_Witness ==
  /\ del # <<>> /\ last.op = "deleteCountry" /\ last.status = "pending"
  /\ SoftDeleted(countries, del[1].id)
  /\ \E v, w \in VisitsOf(visits, del[1].id) : visits[v].deleted /\ ~visits[w].deleted
====
